---- MODULE Spec2Model ----
(***************************************************************************)
(* j2x: writes the key/value pairs of a JSON document as extended          *)
(* attributes (xattrs) of a target file (src/helpers/j2x.py).              *)
(*                                                                         *)
(* A Python str is a sequence of characters (one-character tokens), a      *)
(* Python bytes object is a sequence of integers 0..255.  The attribute    *)
(* store of the target is a function from attribute name (bytes) to        *)
(* attribute value (bytes).                                                *)
(***************************************************************************)
EXTENDS Integers, Sequences, FiniteSets, TLC

\* Largest number of pairs in an input mapping.
MaxPairs == 2
\* Largest number of invocations of the program on the same target.
MaxRuns == 2

-----------------------------------------------------------------------------
(* Characters and their Unicode code points.                               *)

Ord ==
  (" " :> 32) @@ ("." :> 46) @@ ("0" :> 48) @@ ("K" :> 75) @@ ("V" :> 86) @@
  ("d" :> 100) @@ ("e" :> 101) @@ ("k" :> 107) @@ ("l" :> 108) @@
  ("o" :> 111) @@ ("r" :> 114) @@ ("s" :> 115) @@ ("u" :> 117) @@
  ("v" :> 118) @@
  ("Eacute" :> 201) @@ ("eacute" :> 233)

Chars == DOMAIN Ord

Chr(n) == CHOOSE c \in Chars : Ord[c] = n

\* str.isspace() of one character
IsSpace(c) == Ord[c] \in (9..13) \cup (28..32) \cup {133, 160}

\* str.lower() of one character (ASCII and Latin-1 upper-case letters)
LowerChar(c) ==
  IF Ord[c] \in 65..90 \/ (Ord[c] \in 192..222 /\ Ord[c] # 215)
  THEN Chr(Ord[c] + 32)
  ELSE c

RECURSIVE lstrip(_)
lstrip(s) ==
  IF s # <<>> /\ IsSpace(Head(s)) THEN lstrip(Tail(s)) ELSE s

RECURSIVE rstrip(_)
rstrip(s) ==
  IF s # <<>> /\ IsSpace(s[Len(s)]) THEN rstrip(SubSeq(s, 1, Len(s) - 1)) ELSE s

\* str.strip()
strip(s) == rstrip(lstrip(s))

RECURSIVE lower(_)
\* str.lower()
lower(s) ==
  IF s = <<>> THEN <<>> ELSE <<LowerChar(Head(s))>> \o lower(Tail(s))

\* UTF-8 encoding of one character (code points below 2048)
Utf8(c) ==
  IF Ord[c] < 128
  THEN <<Ord[c]>>
  ELSE <<192 + (Ord[c] \div 64), 128 + (Ord[c] % 64)>>

RECURSIVE encode(_)
\* str.encode()
encode(s) ==
  IF s = <<>> THEN <<>> ELSE Utf8(Head(s)) \o encode(Tail(s))

RECURSIVE decode(_)
\* bytes.decode()
decode(b) ==
  IF b = <<>> THEN <<>>
  ELSE IF b[1] < 128
       THEN <<Chr(b[1])>> \o decode(Tail(b))
       ELSE <<Chr((b[1] - 192) * 64 + (b[2] - 128))>> \o decode(Tail(Tail(b)))

-----------------------------------------------------------------------------
(* JSON values as json.load yields them.                                   *)

JStr(s) == [t |-> "str", s |-> s,    n |-> 0]
JNum(n) == [t |-> "num", s |-> <<>>, n |-> n]

\* str(value), for a str and for a one-digit number
PyStr(v) ==
  CASE v.t = "str" -> v.s
    [] v.t = "num" -> <<Chr(48 + v.n)>>

\* the truth value Python's `not` tests
Truthy(v) ==
  CASE v.t = "str" -> v.s # <<>>
    [] v.t = "num" -> v.n # 0

\* JSON documents: an object (its pairs in document order), an array, a scalar
JDict(pairs) == [kind |-> "dict",   pairs |-> pairs, items |-> <<>>]
JList(items) == [kind |-> "list",   pairs |-> <<>>,  items |-> items]
JScalar      == [kind |-> "scalar", pairs |-> <<>>,  items |-> <<>>]

-----------------------------------------------------------------------------
(* Inputs.                                                                 *)

Prefix == <<"u", "s", "e", "r", ".">>

Keys == { <<"k">>, <<" ", "K">>, <<"eacute">> }

Values == { JStr(<<>>), JStr(<<" ">>), JStr(<<" ", "V", "eacute">>), JNum(0) }

Pairs == [key : Keys, value : Values]

\* the objects of at most n pairs, keys distinct
RECURSIVE DictsOf(_)
DictsOf(n) ==
  IF n = 0 THEN { <<>> }
  ELSE LET shorter == DictsOf(n - 1)
       IN  shorter \cup
           { Append(d, p) : d \in { e \in shorter : Len(e) = n - 1 },
                            p \in Pairs }

DistinctKeys(d) ==
  \A i, j \in 1..Len(d) : i # j => d[i].key # d[j].key

Dicts == { JDict(d) : d \in { e \in DictsOf(MaxPairs) : DistinctKeys(e) } }

SmallDicts == { d \in Dicts : Len(d.pairs) <= 1 }

JsonDocs ==
  Dicts
  \cup { JList(<<d>>) : d \in SmallDicts }
  \cup { JList(<<JList(<<d>>)>>) : d \in SmallDicts }
  \cup { JList(<<>>), JScalar }

ArgSets ==
  [archive : BOOLEAN, lower_key : BOOLEAN, lower_value : BOOLEAN,
   clear_first : BOOLEAN, empty_values : BOOLEAN]

EmptyStore == [n \in {} |-> <<>>]

\* a target that already carries attributes
UsedStore ==
  (encode(Prefix \o <<"k">>) :> encode(<<"o", "l", "d">>)) @@
  (encode(Prefix \o <<"Eacute">>) :> encode(<<"eacute">>))

InitStores == { EmptyStore, UsedStore }

Zero == [keys |-> 0, values |-> 0]

\* a local name that has not been assigned
Unbound == [keys |-> -1, values |-> -1]

-----------------------------------------------------------------------------
(* The program.                                                            *)

VARIABLES
  args,         \* the parsed command line (the global `args`)
  json_data,    \* the parsed JSON document
  store,        \* the target's extended attributes: name -> value
  pc,           \* position of the running invocation
  metadata,     \* main: the value handed to write_xattrs
  idx,          \* write_xattrs_dict: position of the loop in data.items()
  total,        \* write_xattrs_dict: the local `total`
  written,      \* write_xattrs_dict: the local `written`
  ret,          \* the value write_xattrs returned
  exc,          \* the exception that reached the caller, "" if none
  total_bytes,  \* what the size query printed, -1 if nothing
  cleared,      \* clear_xattrs has run in this invocation
  entry,        \* the store when write_xattrs was entered
  log,          \* the os.setxattr calls of this invocation, in order
  call,         \* the last write_xattr call: its arguments and its result
  runs,         \* number of invocations started
  start_store,  \* the store when this invocation started
  prev_pc       \* how the previous invocation ended

vars == <<args, json_data, store, pc, metadata, idx, total, written, ret, exc,
          total_bytes, cleared, entry, log, call, runs, start_store, prev_pc>>

\* what a call of os.setxattr may meet in the store, besides the name
\* being taken: "OSError" stands for any other failure (permission denied,
\* no space, name or value over the limit, no xattr support)
Faults == { "none", "OSError" }

\* os.setxattr without XATTR_CREATE: a taken name is overwritten
setxattr_overwrite(st, name, val, fault) ==
  IF fault # "none" THEN [res |-> "error", store |-> st]
  ELSE [res |-> "ok",
        store |-> [m \in DOMAIN st \cup {name} |->
                     IF m = name THEN val ELSE st[m]]]

\* os.setxattr(target, name, val, flags=os.XATTR_CREATE)
setxattr(st, name, val, fault) ==
  IF fault # "none" THEN [res |-> "error", store |-> st]
  ELSE IF name \in DOMAIN st THEN [res |-> "exists", store |-> st]
  ELSE [res |-> "ok", store |-> (name :> val) @@ st]

clean_key(key) ==
  LET out == strip(key)
  IN  IF ~args.archive /\ args.lower_key THEN lower(out) ELSE out

clean_value(value) ==
  LET out == strip(PyStr(value))
  IN  IF ~args.archive /\ args.lower_value THEN lower(out) ELSE out

\* write_xattr without the test for empty values
prepare_noskip(key, value, prefix, archive) ==
  LET strkey == IF archive THEN key ELSE clean_key(key)
      strval == IF archive THEN value ELSE JStr(clean_value(value))
  IN  [skip |-> FALSE,
       name |-> encode(prefix \o strkey),
       val  |-> encode(PyStr(strval))]

\* write_xattr cleaning the key and the value in archive mode too
prepare_clean(key, value, prefix, archive) ==
  LET strkey == clean_key(key)
      strval == JStr(clean_value(value))
  IN  [skip |-> ~Truthy(strval) /\ ~args.empty_values,
       name |-> encode(prefix \o strkey),
       val  |-> encode(PyStr(strval))]

\* write_xattr up to the encoding: the name and the value it is about to
\* store, and whether it skips the pair
prepare(key, value, prefix, archive) ==
  LET strkey == IF archive THEN key ELSE clean_key(key)
      strval == IF archive THEN value ELSE JStr(clean_value(value))
  IN  [skip |-> ~Truthy(strval) /\ ~args.empty_values,
       name |-> encode(prefix \o strkey),
       val  |-> encode(PyStr(strval))]

\* write_xattr(target, key, value, prefix, archive): the outcome, the store
\* afterwards and the tally returned (when no exception is raised)
write_xattr(st, key, value, prefix, archive, fault) ==
  LET p == prepare(key, value, prefix, archive)
      r == setxattr(st, p.name, p.val, fault)
  IN  IF p.skip
      THEN [outcome |-> "skipped", store |-> st, written |-> Zero,
            name |-> p.name, val |-> p.val]
      ELSE CASE r.res = "ok" ->
                  [outcome |-> "written", store |-> r.store,
                   written |-> [keys |-> Len(p.name), values |-> Len(p.val)],
                   name |-> p.name, val |-> p.val]
             [] r.res = "exists" ->
                  [outcome |-> "exists", store |-> r.store, written |-> Zero,
                   name |-> p.name, val |-> p.val]
             [] r.res = "error" ->
                  [outcome |-> "error", store |-> r.store, written |-> Zero,
                   name |-> p.name, val |-> p.val]

\* os.listxattr(target): the names as str, in some order
RECURSIVE listxattr(_)
listxattr(st) ==
  IF DOMAIN st = {} THEN <<>>
  ELSE LET n == CHOOSE m \in DOMAIN st : TRUE
       IN  <<decode(n)>> \o listxattr([m \in DOMAIN st \ {n} |-> st[m]])

read_xattrs(st) == listxattr(st)

\* clear_xattrs(target): the store after every listed name is removed
RECURSIVE removeall(_, _)
removeall(st, names) ==
  IF names = <<>> THEN st
  ELSE removeall([m \in DOMAIN st \ {encode(Head(names))} |-> st[m]],
                 Tail(names))

\* clear_xattrs removing nothing
clear_xattrs_keep(st) == st

clear_xattrs(st) == removeall(st, listxattr(st))

\* "".join(list of str)
RECURSIVE join(_)
join(ss) == IF ss = <<>> THEN <<>> ELSE Head(ss) \o join(Tail(ss))

RECURSIVE getvalues(_, _)
getvalues(st, xattrs) ==
  IF xattrs = <<>> THEN <<>>
  ELSE <<decode(st[encode(Head(xattrs))])>> \o getvalues(st, Tail(xattrs))

get_xattrs_size(st) ==
  LET xattrs == read_xattrs(st)
      values == getvalues(st, xattrs)
  IN  Len(join(xattrs \o values))

NoCall ==
  [outcome |-> "none", idx |-> 0, key |-> <<>>, value |-> JStr(<<>>),
   name |-> <<>>, val |-> <<>>, pre |-> EmptyStore, written |-> Zero,
   fault |-> "none"]

Init ==
  /\ args \in ArgSets
  /\ json_data \in JsonDocs
  /\ store \in InitStores
  /\ pc = "start"
  /\ metadata = JScalar
  /\ idx = 0
  /\ total = Zero
  /\ written = Unbound
  /\ ret = Unbound
  /\ exc = ""
  /\ total_bytes = -1
  /\ cleared = FALSE
  /\ entry = EmptyStore
  /\ log = <<>>
  /\ call = NoCall
  /\ runs = 1
  /\ start_store = store
  /\ prev_pc = ""

\* main with --size: print get_xattrs_size(target) and exit
MainSize ==
  /\ pc = "start"
  /\ total_bytes' = get_xattrs_size(store)
  /\ pc' = "exit"
  /\ UNCHANGED <<args, json_data, store, metadata, idx, total, written, ret,
                 exc, cleared, entry, log, call, runs, start_store, prev_pc>>

\* main without --size, up to the clear_first test: metadata is json_data[0]
\* for a list, json_data otherwise
MainRead ==
  /\ pc = "start"
  /\ IF json_data.kind = "list" /\ json_data.items = <<>>
     THEN /\ pc' = "raised"
          /\ exc' = "IndexError"
          /\ UNCHANGED metadata
     ELSE /\ metadata' = IF json_data.kind = "list" THEN json_data.items[1]
                         ELSE json_data
          /\ pc' = IF args.clear_first THEN "clear" ELSE "write"
          /\ UNCHANGED exc
  /\ UNCHANGED <<args, json_data, store, idx, total, written, ret,
                 total_bytes, cleared, entry, log, call, runs, start_store,
                 prev_pc>>

\* main: clear_xattrs(target) when args.clear_first
ClearXattrs ==
  /\ pc = "clear"
  /\ store' = clear_xattrs(store)
  /\ cleared' = TRUE
  /\ pc' = "write"
  /\ UNCHANGED <<args, json_data, metadata, idx, total, written, ret, exc,
                 total_bytes, entry, log, call, runs, start_store, prev_pc>>

\* write_xattrs: dispatch on the type of data.  write_xattrs_dict starts its
\* loop; write_xattrs_list evaluates data.items() on a list, which raises
\* AttributeError; anything else raises ValueError
WriteXattrs ==
  /\ pc = "write"
  /\ entry' = store
  /\ CASE metadata.kind = "dict" ->
            /\ pc' = "dict_loop"
            /\ idx' = 1
            /\ total' = Zero
            /\ UNCHANGED exc
       [] metadata.kind = "list" ->
            /\ pc' = "raised"
            /\ exc' = "AttributeError"
            /\ UNCHANGED <<idx, total>>
       [] OTHER ->
            /\ pc' = "raised"
            /\ exc' = "ValueError"
            /\ UNCHANGED <<idx, total>>
  /\ UNCHANGED <<args, json_data, store, metadata, written, ret, total_bytes,
                 cleared, log, call, runs, start_store, prev_pc>>

\* write_xattrs_dict going on with the next pair after a failed write
DictIter_swallow(fault) ==
  /\ pc = "dict_loop"
  /\ idx <= Len(metadata.pairs)
  /\ LET key   == metadata.pairs[idx].key
         value == metadata.pairs[idx].value
         w     == write_xattr(store, key, value, Prefix, args.archive, fault)
     IN  /\ w.outcome = "skipped" => fault = "none"
         /\ call' = [outcome |-> w.outcome, idx |-> idx, key |-> key,
                     value |-> value, name |-> w.name, val |-> w.val,
                     pre |-> store, written |-> w.written, fault |-> fault]
         /\ log' = IF w.outcome = "skipped" THEN log
                   ELSE Append(log, [name |-> w.name, val |-> w.val,
                                     res |-> w.outcome])
         /\ store' = w.store
         /\ written' = w.written
         /\ total' = [keys   |-> total.keys + w.written.keys,
                      values |-> total.values + w.written.values]
         /\ idx' = idx + 1
         /\ UNCHANGED <<pc, exc>>
  /\ UNCHANGED <<args, json_data, metadata, ret, total_bytes, cleared, entry,
                 runs, start_store, prev_pc>>

\* write_xattrs_dict: one turn of the loop over data.items()
DictIter(fault) ==
  /\ pc = "dict_loop"
  /\ idx <= Len(metadata.pairs)
  /\ LET key   == metadata.pairs[idx].key
         value == metadata.pairs[idx].value
         w     == write_xattr(store, key, value, Prefix, args.archive, fault)
     IN  /\ w.outcome = "skipped" => fault = "none"
         /\ call' = [outcome |-> w.outcome, idx |-> idx, key |-> key,
                     value |-> value, name |-> w.name, val |-> w.val,
                     pre |-> store, written |-> w.written, fault |-> fault]
         /\ log' = IF w.outcome = "skipped" THEN log
                   ELSE Append(log, [name |-> w.name, val |-> w.val,
                                     res |-> w.outcome])
         /\ store' = w.store
         /\ IF w.outcome = "error"
            THEN /\ pc' = "raised"
                 /\ exc' = "OSError"
                 /\ UNCHANGED <<idx, total, written>>
            ELSE /\ written' = w.written
                 /\ total' = [keys   |-> total.keys + w.written.keys,
                              values |-> total.values + w.written.values]
                 /\ idx' = idx + 1
                 /\ UNCHANGED <<pc, exc>>
  /\ UNCHANGED <<args, json_data, metadata, ret, total_bytes, cleared, entry,
                 runs, start_store, prev_pc>>

\* write_xattrs_dict after the loop: `return written`
DictReturn ==
  /\ pc = "dict_loop"
  /\ idx > Len(metadata.pairs)
  /\ IF written = Unbound
     THEN /\ pc' = "raised"
          /\ exc' = "UnboundLocalError"
          /\ UNCHANGED ret
     ELSE /\ pc' = "done"
          /\ ret' = written
          /\ UNCHANGED exc
  /\ UNCHANGED <<args, json_data, store, metadata, idx, total, written,
                 total_bytes, cleared, entry, log, call, runs, start_store,
                 prev_pc>>

\* the program is invoked again on the same target with the same command
\* line and document, after an invocation that exited normally
Rerun ==
  /\ pc \in {"done", "exit"}
  /\ runs < MaxRuns
  /\ runs' = runs + 1
  /\ start_store' = store
  /\ prev_pc' = pc
  /\ pc' = "start"
  /\ metadata' = JScalar
  /\ idx' = 0
  /\ total' = Zero
  /\ written' = Unbound
  /\ ret' = Unbound
  /\ exc' = ""
  /\ total_bytes' = -1
  /\ cleared' = FALSE
  /\ entry' = EmptyStore
  /\ log' = <<>>
  /\ call' = NoCall
  /\ UNCHANGED <<args, json_data, store>>

Next ==
  \/ MainSize
  \/ MainRead
  \/ ClearXattrs
  \/ WriteXattrs
  \/ \E fault \in Faults : DictIter(fault)
  \/ DictReturn
  \/ Rerun

Spec == Init /\ [][Next]_vars

-----------------------------------------------------------------------------
(* Properties.                                                             *)

\* the name and the value the documentation gives a pair: the key and the
\* string form of the value as given in archive mode; stripped, and
\* lower-cased on request, otherwise
NormKey(key) ==
  IF args.archive THEN key
  ELSE IF args.lower_key THEN lower(strip(key)) ELSE strip(key)

NormValue(value) ==
  IF args.archive THEN PyStr(value)
  ELSE IF args.lower_value THEN lower(strip(PyStr(value)))
       ELSE strip(PyStr(value))

AttrName(key) == encode(Prefix \o NormKey(key))

RECURSIVE LogBytes(_, _)
\* bytes of the names ("name") or values ("val") of the writes of a log
LogBytes(l, what) ==
  IF l = <<>> THEN 0
  ELSE (IF Head(l).res = "written"
        THEN (IF what = "name" THEN Len(Head(l).name) ELSE Len(Head(l).val))
        ELSE 0) + LogBytes(Tail(l), what)

RECURSIVE StoreBytes(_)
\* bytes of every name and every value of a store
StoreBytes(st) ==
  IF DOMAIN st = {} THEN 0
  ELSE LET n == CHOOSE m \in DOMAIN st : TRUE
       IN  Len(n) + Len(st[n]) + StoreBytes([m \in DOMAIN st \ {n} |-> st[m]])

RECURSIVE Count(_, _)
Count(seq, x) ==
  IF seq = <<>> THEN 0
  ELSE (IF Head(seq) = x THEN 1 ELSE 0) + Count(Tail(seq), x)

\* C1: the tally write_xattrs returns for a mapping whose writes all succeed
\* has keys = the bytes of the names of the pairs written by the call and
\* values = the bytes of their values.
ByteAccounting ==
  (pc = "done" /\ metadata.kind = "dict") =>
     ret = [keys |-> LogBytes(log, "name"), values |-> LogBytes(log, "val")]

\* C2: a write_xattr call for a name that is already on the target, the store
\* answering by its create-only rule, leaves every name and value as it was,
\* returns a zero tally and raises nothing; so a second run of the same
\* mapping ends with the store the first run left.
CreateOnly ==
  /\ (call.outcome # "none" /\ call.name \in DOMAIN call.pre
        /\ call.fault = "none") =>
        /\ store = call.pre
        /\ call.written = Zero
        /\ call.outcome \in {"skipped", "exists"}
        /\ pc # "raised"
  /\ (runs >= 2 /\ prev_pc = "done" /\ (pc = "done" \/ ~args.clear_first)) =>
        store = start_store

CreateOnlyWitness ==
  /\ runs = 2 /\ prev_pc = "done" /\ pc = "done"
  /\ call.outcome = "exists"
  /\ call.pre[call.name] # call.val
  /\ ~args.clear_first

\* C3: after a write_xattr call that raised nothing, for a pair whose
\* normalized string form is not empty, read_xattrs lists prefix +
\* normalized key exactly once.
Presence ==
  (call.outcome \in {"skipped", "written", "exists"}
     /\ NormValue(call.value) # <<>>) =>
     Count(read_xattrs(store), Prefix \o NormKey(call.key)) = 1

\* C4: a pair whose value normalizes to the empty string (empty as given in
\* archive mode, empty once stripped otherwise) is skipped when empty values
\* are not written: the store is unchanged, the tally is zero, nothing is
\* raised.
SkipLaw ==
  (call.outcome # "none" /\ ~args.empty_values
     /\ (IF args.archive THEN call.value = JStr(<<>>)
         ELSE strip(PyStr(call.value)) = <<>>)) =>
     /\ call.outcome = "skipped"
     /\ store = call.pre
     /\ call.written = Zero
     /\ pc # "raised"

SkipLawWitness ==
  /\ call.outcome = "skipped"
  /\ ~args.archive
  /\ call.value = JStr(<<" ">>)
  /\ call.name \notin DOMAIN store

\* C5: in archive mode a pair that is written is stored under exactly
\* prefix + key with exactly the string form of its value, whatever the
\* lowercase flags.
ArchiveLaw ==
  (call.outcome = "written" /\ args.archive) =>
     /\ call.name = encode(Prefix \o call.key)
     /\ call.name \in DOMAIN store
     /\ store[call.name] = encode(PyStr(call.value))
     /\ decode(call.name) = Prefix \o call.key
     /\ decode(store[call.name]) = PyStr(call.value)

ArchiveLawWitness ==
  /\ call.outcome = "written"
  /\ args.archive /\ args.lower_key /\ args.lower_value
  /\ call.key = <<" ", "K">>
  /\ call.value = JStr(<<" ", "V", "eacute">>)

\* C6: get_xattrs_size returns the bytes of every attribute name plus the
\* bytes of every attribute value on the target.
SizeIsBytes ==
  pc = "exit" => total_bytes = StoreBytes(store)

\* C7: a write that fails with an error other than "already exists" raises
\* that error to the caller of write_xattrs_dict; it is the last write
\* attempted, and every attribute written before it in the call is still on
\* the target with its value.
FailFast ==
  call.outcome = "error" =>
     /\ pc = "raised"
     /\ exc = "OSError"
     /\ idx = call.idx
     /\ store = call.pre
     /\ \A i \in 1..Len(log) :
          /\ log[i].res = "error" => i = Len(log)
          /\ log[i].res = "written" =>
               /\ log[i].name \in DOMAIN store
               /\ store[log[i].name] = log[i].val

FailFastWitness ==
  /\ pc = "raised"
  /\ call.outcome = "error"
  /\ Len(log) = 2
  /\ log[1].res = "written"
  /\ log[1].name \notin DOMAIN start_store

\* C8: with clear-first, clear_xattrs has run before any write, and after a
\* run that succeeds every attribute of the target is prefix + normalized
\* key of a pair of the input, with that pair's value.
ClearFirst ==
  args.clear_first =>
     /\ (pc \in {"write", "dict_loop", "done"} \/ log # <<>>) => cleared
     /\ pc = "write" => store = EmptyStore
     /\ pc = "done" =>
          \A n \in DOMAIN store :
             \E i \in 1..Len(metadata.pairs) :
                /\ n = AttrName(metadata.pairs[i].key)
                /\ store[n] = encode(NormValue(metadata.pairs[i].value))

ClearFirstWitness ==
  /\ args.clear_first
  /\ pc = "done"
  /\ start_store = UsedStore
  /\ store # EmptyStore

\* C9: write_xattrs called with a list writes the pairs of the list's items
\* as it would write those of a mapping.
ListInput ==
  (metadata.kind = "list" /\ pc \in {"done", "raised"}) =>
     /\ pc = "done"
     /\ \A i \in 1..Len(metadata.items) :
          \A j \in 1..Len(metadata.items[i].pairs) :
             LET p == prepare(metadata.items[i].pairs[j].key,
                              metadata.items[i].pairs[j].value,
                              Prefix, args.archive)
             IN  ~p.skip => p.name \in DOMAIN store

\* C10: write_xattrs called with an empty mapping raises nothing, leaves the
\* store unchanged and returns a tally of zero keys and zero values.
EmptyMapping ==
  (metadata = JDict(<<>>) /\ pc \in {"done", "raised"}) =>
     /\ pc = "done"
     /\ ret = Zero
     /\ store = entry

====
